---- MODULE Spec2Model ----
(***************************************************************************)
(* State-machine model of sch_simulation/helsim_FUNC_KK/events.py: the     *)
(* event sampler (doEvent, doEvent2), the regular step (doRegular,         *)
(* doDeath, doFreeLive), the interventions (doChemo, doChemoAgeRange,      *)
(* doVaccineAgeRange) and the surveys (conductSurvey, conductSurveyTwo),   *)
(* all acting on one population state SD.                                  *)
(*                                                                         *)
(* Conventions.  Hosts are numbered 0..N-1 as in the numpy arrays.  Dates  *)
(* are integers in units of 0.001 year (Unit per year), so that the        *)
(* birth date t - 0.001 is exact.  A uniform variate in [0,1) is a         *)
(* numerator u in 0..UDen-1 standing for u/UDen; a probability is a pair   *)
(* <<num, den>>.                                                           *)
(***************************************************************************)
EXTENDS Integers, Sequences, FiniteSets, TLC

\* ------------------------------------------------------------------ bounds
N == 2
MaxWorms == 2
MaxMult == 2
MaxRate == 1
UDen == 2
MaxT == 1
MaxDt == 1
MaxLife == 1
MaxSi == 2
MaxAdh == 1
MaxAge == 2
MaxLog == 1
MaxCount == 2
MaxSamples == 2
MinSamples == 0 - 1
MaxEgg == 1

Hosts == 0 .. N - 1
UGrid == 0 .. UDen - 1
RateValues == 0 .. MaxRate
Times == 0 .. MaxT

\* -------------------------------------------------------------- parameters
Unit == 1000
\* params.v1, params.v2, params.v3: indexed by vaccine state 0 / 1
v1 == [s \in {0, 1} |-> IF s = 0 THEN 2 ELSE 1]
v2 == [s \in {0, 1} |-> IF s = 0 THEN 2 ELSE 1]
v3 == [s \in {0, 1} |-> IF s = 0 THEN <<1, 1>> ELSE <<1, 2>>]

\* ----------------------------------------------------------------- helpers
RECURSIVE CumSum(_, _)
\* np.cumsum(w)[i] for a vector w indexed from 0
CumSum(w, i) == IF i < 0 THEN 0 ELSE w[i] + CumSum(w, i - 1)

\* np.sum(w) for a vector w indexed 0..len-1
VecSum(w, len) == CumSum(w, len - 1)

\* np.argmax(u * np.sum(w) < np.cumsum(w)): the first index whose cumulative
\* weight exceeds the scaled draw, and index 0 when no entry does
ArgMaxDraw(u, w, len) ==
    LET hit == {i \in 0 .. len - 1 : u * VecSum(w, len) < UDen * CumSum(w, i)}
    IN  IF hit = {} THEN 0 ELSE CHOOSE i \in hit : \A j \in hit : i <= j

\* np.random.uniform() < num/den
Lt(u, p) == u * p[2] < p[1] * UDen

\* the truth values a comparison of a uniform variate can take
Outcomes(P(_)) == {P(u) : u \in UGrid}

FemaleDiesAlways(u, f, t) == TRUE

\* np.random.uniform() < f / t with numpy's division: x/0 is +-inf or nan
FemaleDies(u, f, t) ==
    IF t > 0 THEN u * t < f * UDen
    ELSE IF t = 0 THEN f > 0
    ELSE u * (0 - t) < (0 - f) * UDen

WormsInRange(w) == \A i \in Hosts : w[i] >= 0 - 1 /\ w[i] <= MaxWorms

\* ------------------------------------------------------------------- state
VARIABLES
    wormsTotal, wormsFemale, sv, si,
    birthDate, deathDate,
    contactAgeGroupIndices, treatmentAgeGroupIndices, VaccTreatmentAgeGroupIndices,
    compliers, adherenceFactors,
    freeLiving, vaccCount, numSurvey, numSurveyTwo, nChemo1, nChemo2,
    attendanceRecord, ageAtChemo, adherenceFactorAtChemo,
    clock, zeroWormDeath, last

worms == <<wormsTotal, wormsFemale>>
demography == <<si, birthDate, deathDate, compliers, adherenceFactors>>
ageGroups == <<contactAgeGroupIndices, treatmentAgeGroupIndices, VaccTreatmentAgeGroupIndices>>
counters == <<vaccCount, numSurvey, numSurveyTwo, nChemo1, nChemo2>>
logs == <<attendanceRecord, ageAtChemo, adherenceFactorAtChemo>>
vars == <<wormsTotal, wormsFemale, sv, si, birthDate, deathDate,
          contactAgeGroupIndices, treatmentAgeGroupIndices, VaccTreatmentAgeGroupIndices,
          compliers, adherenceFactors, freeLiving, vaccCount, numSurvey, numSurveyTwo,
          nChemo1, nChemo2, attendanceRecord, ageAtChemo, adherenceFactorAtChemo,
          clock, zeroWormDeath, last>>

\* --------------------------------------------------------------- doEvent
\* line 39-41: the outcomes of the inverse-CDF draw over a caller-supplied rate
\* vector of N acquisition slots, N vaccine-waning slots and one death slot;
\* rate is the rate entry of the selected event
EventDraws ==
    {[event |-> ArgMaxDraw(u, rates, 2 * N + 1),
      rate |-> rates[ArgMaxDraw(u, rates, 2 * N + 1)]] :
        rates \in [0 .. 2 * N -> RateValues], u \in UGrid}

\* lines 59-66: the second if/elif of doEvent, run on the arrays (tot, fem)
\* left by the death branch
EventTail(event, tot, fem) ==
    IF event <= N
    THEN IF event \notin Hosts
         THEN /\ wormsTotal' = tot /\ wormsFemale' = fem /\ sv' = sv
              /\ last' = [op |-> "doEvent", raised |-> "IndexError"]
         ELSE \E acc \in Outcomes(LAMBDA u : Lt(u, v3[sv[event]])),
                 half \in Outcomes(LAMBDA u : Lt(u, <<1, 2>>)) :
              /\ wormsTotal' = IF acc THEN [tot EXCEPT ![event] = @ + 1] ELSE tot
              /\ wormsFemale' = IF acc /\ half THEN [fem EXCEPT ![event] = @ + 1] ELSE fem
              /\ sv' = sv
              /\ last' = [op |-> "doEvent", raised |-> "none"]
    ELSE IF event <= 2 * N
    THEN LET hostIndex == event - N
         IN  /\ wormsTotal' = tot /\ wormsFemale' = fem
             /\ sv' = IF hostIndex \in Hosts THEN [sv EXCEPT ![hostIndex] = 0] ELSE sv
             /\ last' = [op |-> "doEvent",
                         raised |-> IF hostIndex \in Hosts THEN "none" ELSE "IndexError"]
    ELSE /\ wormsTotal' = tot /\ wormsFemale' = fem /\ sv' = sv
         /\ last' = [op |-> "doEvent", raised |-> "none"]

\* lines 45-49: the nested death draw, weighted by wormsTotal * v1[sv]
DeathIndexes ==
    {ArgMaxDraw(u, [i \in Hosts |-> wormsTotal[i] * v1[sv[i]]], N) : u \in UGrid}

\* lines 39-68 for one selected event
doEventStep(event) ==
    /\ IF event = (2 * N + 1) - 1
       THEN \E deathIndex \in DeathIndexes :
            \E dies \in Outcomes(LAMBDA u : FemaleDies(u, wormsFemale[deathIndex],
                                                       wormsTotal[deathIndex] - 1)) :
              /\ EventTail(event,
                           [wormsTotal EXCEPT ![deathIndex] = @ - 1],
                           IF dies THEN [wormsFemale EXCEPT ![deathIndex] = @ - 1]
                                   ELSE wormsFemale)
              /\ zeroWormDeath' = (zeroWormDeath \/ wormsTotal[deathIndex] <= 0)
       ELSE /\ EventTail(event, wormsTotal, wormsFemale)
            /\ zeroWormDeath' = zeroWormDeath
    /\ WormsInRange(wormsTotal') /\ WormsInRange(wormsFemale')
    /\ UNCHANGED <<demography, ageGroups, freeLiving, counters, logs, clock>>

doEvent == \E d \in EventDraws : doEventStep(d.event)

\* --------------------------------------------------------------- doEvent2
\* lines 100-101: the events_array a batch can draw: multiplier uniform variates
\* resolved against one cumulative vector of 3N rates (N acquisition, N
\* vaccine-waning, N death slots)
BatchDraws ==
    UNION {{[j \in 1 .. multiplier |-> ArgMaxDraw(u[j], rates, 3 * N)] :
               u \in [1 .. multiplier -> UGrid]} :
           multiplier \in 1 .. MaxMult, rates \in [0 .. 3 * N - 1 -> RateValues]}

\* np.put(arr, hosts, np.take(arr, hosts) + incr): assignments in draw order,
\* each computed from the array as it was before the call
RECURSIVE PutTake(_, _, _, _, _)
PutTake(arr, old, hostArr, incr, j) ==
    IF j > Len(hostArr) THEN arr
    ELSE PutTake([arr EXCEPT ![hostArr[j]] = old[hostArr[j]] + incr[j]],
                 old, hostArr, incr, j + 1)

\* lines 102-103
EventType(e) == (e \div N) + 1
HostIndex(e) == e % N
Event1(events_array) == {j \in DOMAIN events_array : EventType(events_array[j]) = 1}
Event2(events_array) == {j \in DOMAIN events_array : EventType(events_array[j]) = 2}
Event3(events_array) == {j \in DOMAIN events_array : EventType(events_array[j]) = 3}

\* line 112-113: the acceptance outcomes the draws of a batch can have
AcceptOutcomes(events_array) ==
    {a \in [Event1(events_array) -> BOOLEAN] :
        \A j \in Event1(events_array) :
            a[j] \in Outcomes(LAMBDA u : Lt(u, v3[sv[HostIndex(events_array[j])]]))}

\* lines 119-124: the female-death outcomes the draws of a batch can have
FemaleDeathOutcomes(events_array) ==
    {a \in [Event3(events_array) -> BOOLEAN] :
        \A j \in Event3(events_array) :
            a[j] \in Outcomes(LAMBDA u :
                        FemaleDies(u, wormsFemale[HostIndex(events_array[j])],
                                   wormsTotal[HostIndex(events_array[j])]))}

\* line 128: np.random.uniform(size=multiplier) < 0.5, which only counts at the
\* positions of acquisition draws
HalfOutcomes(events_array) ==
    [Event1(events_array) -> Outcomes(LAMBDA u : Lt(u, <<1, 2>>))]

\* line 117: +1 for an accepted acquisition, -1 for a death
TotalArray(events_array, acc) ==
    [j \in DOMAIN events_array |->
        (IF j \in Event1(events_array) /\ acc[j] THEN 1 ELSE 0)
        + (IF j \in Event3(events_array) THEN 0 - 1 ELSE 0)]

\* lines 127-131: +1 for an accepted acquisition of a female worm, -1 for the
\* death of a female worm
FemalesArray(events_array, acc, dies, half) ==
    [j \in DOMAIN events_array |->
        (IF j \in Event1(events_array) /\ acc[j] /\ half[j] THEN 1 ELSE 0)
        + (IF j \in Event3(events_array) /\ dies[j] THEN 0 - 1 ELSE 0)]

\* lines 100-147 for one batch of draws
doEvent2Step(events_array, acc, dies, half) ==
    LET host_index_array == [j \in DOMAIN events_array |-> HostIndex(events_array[j])]
    IN  /\ sv' = [i \in Hosts |->
                    IF \E j \in Event2(events_array) : host_index_array[j] = i
                    THEN 0 ELSE sv[i]]
        /\ wormsTotal' = PutTake(wormsTotal, wormsTotal, host_index_array,
                                 TotalArray(events_array, acc), 1)
        /\ wormsFemale' = PutTake(wormsFemale, wormsFemale, host_index_array,
                                  FemalesArray(events_array, acc, dies, half), 1)
        /\ zeroWormDeath' = (zeroWormDeath \/
               \E j \in Event3(events_array) : wormsTotal[host_index_array[j]] <= 0)
        /\ last' = [op |-> "doEvent2", raised |-> "none"]
        /\ WormsInRange(wormsTotal') /\ WormsInRange(wormsFemale')
        /\ UNCHANGED <<demography, ageGroups, freeLiving, counters, logs, clock>>

doEvent2 ==
    \E events_array \in BatchDraws :
    \E acc \in AcceptOutcomes(events_array), dies \in FemaleDeathOutcomes(events_array),
       half \in HalfOutcomes(events_array) :
        doEvent2Step(events_array, acc, dies, half)

\* ---------------------------------------------------------------- doDeath
GammaDraws == 2 .. MaxSi
LifeSpans == 1 .. MaxLife
AdhDraws == 1 .. MaxAdh
propNeverCompliers == <<1, 4>>
contactAgeGroupBreaks == <<0, Unit, 100 * Unit>>
treatmentAgeGroupBreaks == <<0, 2 * Unit, 100 * Unit>>
VaccTreatmentAgeGroupBreaks == <<0, Unit, 2 * Unit, 100 * Unit>>

\* np.digitize(x, bins): the number of break points <= x (bins increasing)
Digitize(x, bins) == Cardinality({j \in 1 .. Len(bins) : bins[j] <= x})

theDeadInclusive(t) == {i \in Hosts : deathDate[i] <= t * Unit}

\* line 254: np.where(SD.demography.deathDate < t)
theDead(t) == {i \in Hosts : deathDate[i] < t * Unit}

\* lines 276-279: the complier flags the draws can give
ComplierOutcomes == {u * propNeverCompliers[2] > propNeverCompliers[1] * UDen : u \in UGrid}

\* lines 253-294, with the samples drawn for the dead hosts
DeathUpdate(t, newSi, life, newAdh, newComp) ==
    /\ si' = [i \in Hosts |-> IF i \in theDead(t) THEN newSi[i] ELSE si[i]]
    /\ sv' = [i \in Hosts |-> IF i \in theDead(t) THEN 0 ELSE sv[i]]
    /\ birthDate' = [i \in Hosts |-> IF i \in theDead(t) THEN t * Unit - 1 ELSE birthDate[i]]
    /\ deathDate' = [i \in Hosts |->
                        IF i \in theDead(t) THEN t * Unit + life[i] * Unit ELSE deathDate[i]]
    /\ wormsTotal' = [i \in Hosts |-> IF i \in theDead(t) THEN 0 ELSE wormsTotal[i]]
    /\ wormsFemale' = [i \in Hosts |-> IF i \in theDead(t) THEN 0 ELSE wormsFemale[i]]
    /\ adherenceFactors' = [i \in Hosts |->
                               IF i \in theDead(t) THEN newAdh[i] ELSE adherenceFactors[i]]
    /\ compliers' = [i \in Hosts |-> IF i \in theDead(t) THEN newComp[i] ELSE compliers[i]]
    /\ contactAgeGroupIndices' =
           [i \in Hosts |-> Digitize(t * Unit - birthDate'[i], contactAgeGroupBreaks) - 1]
    /\ treatmentAgeGroupIndices' =
           [i \in Hosts |-> Digitize(t * Unit - birthDate'[i], treatmentAgeGroupBreaks) - 1]
    /\ VaccTreatmentAgeGroupIndices' =
           [i \in Hosts |-> Digitize(t * Unit - birthDate'[i], VaccTreatmentAgeGroupBreaks) - 1]

\* doDeath at time t
doDeathStep(t) ==
    \E newSi \in [theDead(t) -> GammaDraws], life \in [theDead(t) -> LifeSpans],
       newAdh \in [theDead(t) -> AdhDraws], newComp \in [theDead(t) -> ComplierOutcomes] :
        /\ DeathUpdate(t, newSi, life, newAdh, newComp)
        /\ clock' = t
        /\ last' = [op |-> "doDeath", raised |-> "none"]
        /\ UNCHANGED <<freeLiving, counters, logs, zeroWormDeath>>

doDeath == \E t \in clock .. MaxT : doDeathStep(t)

\* ------------------------------------------------------------- doFreeLive
reproFuncName == "epgFertility"
SR == TRUE
lambda_egg == 1
psi == 1
rho == <<1, 2>>

RECURSIVE Pow2(_)
Pow2(n) == IF n <= 0 THEN 1 ELSE 2 * Pow2(n - 1)

\* lines 199-211
productivefemaleworms(tot, fem) ==
    IF reproFuncName = "epgFertility" /\ SR
    THEN IF tot = fem THEN 0 ELSE fem
    ELSE IF reproFuncName = "epgFertility"
    THEN fem
    ELSE IF tot - fem < fem THEN tot - fem ELSE fem

\* lines 215-220, in units of 2^-(MaxWorms+1): exp(-gamma) is taken as 1/2
eggOutputPerHost(tot, fem, s) ==
    lambda_egg * productivefemaleworms(tot, fem) * Pow2((MaxWorms + 1) - tot) * v2[s]

RECURSIVE SumOver(_, _)
SumOver(f, S) ==
    IF S = {} THEN 0
    ELSE LET i == CHOOSE x \in S : TRUE IN f[i] + SumOver(f, S \ {i})

\* lines 221-226; rho is indexed from 0 in the source
eggsProdRate(tot, fem, svv, idx) ==
    (2 * psi * SumOver([i \in Hosts |->
                          eggOutputPerHost(tot[i], fem[i], svv[i]) * rho[idx[i] + 1]], Hosts))
        \div N

\* lines 227-230 in fixed point, rounding down: exp(-LDecayRate * dt) is taken
\* as 2^-dt and 1 / LDecayRate as 3/2
FreeLive(tot, fem, svv, idx, fl, dt) ==
    (fl \div Pow2(dt))
    + (eggsProdRate(tot, fem, svv, idx) * (Pow2(dt) - 1) * 3) \div (Pow2(dt) * 2)

doFreeLive ==
    \E dt \in 0 .. MaxDt :
        /\ freeLiving' = FreeLive(wormsTotal, wormsFemale, sv, contactAgeGroupIndices,
                                  freeLiving, dt)
        /\ last' = [op |-> "doFreeLive", raised |-> "none"]
        /\ UNCHANGED <<worms, sv, demography, ageGroups, counters, logs, clock,
                       zeroWormDeath>>

\* -------------------------------------------------------------- doRegular
doRegularStepFreeLiveFirst(t, dt) ==
    \E newSi \in [theDead(t) -> GammaDraws], life \in [theDead(t) -> LifeSpans],
       newAdh \in [theDead(t) -> AdhDraws], newComp \in [theDead(t) -> ComplierOutcomes] :
        /\ freeLiving' = FreeLive(wormsTotal, wormsFemale, sv, contactAgeGroupIndices,
                                  freeLiving, dt)
        /\ DeathUpdate(t, newSi, life, newAdh, newComp)
        /\ clock' = t
        /\ last' = [op |-> "doRegular", raised |-> "none"]
        /\ UNCHANGED <<counters, logs, zeroWormDeath>>

\* lines 175-177: doDeath, then doFreeLive on the state doDeath returned
doRegularStep(t, dt) ==
    \E newSi \in [theDead(t) -> GammaDraws], life \in [theDead(t) -> LifeSpans],
       newAdh \in [theDead(t) -> AdhDraws], newComp \in [theDead(t) -> ComplierOutcomes] :
        /\ DeathUpdate(t, newSi, life, newAdh, newComp)
        /\ freeLiving' = FreeLive(wormsTotal', wormsFemale', sv', contactAgeGroupIndices',
                                  freeLiving, dt)
        /\ clock' = t
        /\ last' = [op |-> "doRegular", raised |-> "none"]
        /\ UNCHANGED <<counters, logs, zeroWormDeath>>

doRegular == \E t \in clock .. MaxT, dt \in 0 .. MaxDt : doRegularStep(t, dt)

\* ----------------------------------------------------------------- doChemo
CovValues == {<<0, 1>>, <<1, 2>>, <<1, 1>>}
DrugEfficacy == <<1, 2>>
DrugEfficacy1 == <<1, 2>>
DrugEfficacy2 == <<1, 1>>
drug1Years == <<1>>
drug1Split == <<(<<1, 2>>)>>
drug2Years == <<1>>
drug2Split == <<(<<1, 2>>)>>
AgeValues == 0 .. MaxAge

\* np.random.binomial(n, p): the possible numbers of successes
Binomial(n, p) ==
    IF p[1] = 0 THEN {0} ELSE IF p[1] = p[2] THEN {n} ELSE 0 .. n

\* np.random.binomial raises ValueError for n < 0
BadN(tot, fem, K) == \E i \in K : fem[i] < 0 \/ tot[i] - fem[i] < 0

\* lines 331-342 (and 420-429, 438-447): the worm arrays after the binomial
\* kills of female and male worms in the hosts K
Kills(tot, fem, K, p) ==
    {[tot |-> [i \in Hosts |-> IF i \in K THEN tot[i] - (fd[i] + md[i]) ELSE tot[i]],
      fem |-> [i \in Hosts |-> IF i \in K THEN fem[i] - fd[i] ELSE fem[i]]] :
        fd \in {f \in [K -> 0 .. MaxWorms] : \A i \in K : f[i] \in Binomial(fem[i], p)},
        md \in {f \in [K -> 0 .. MaxWorms] :
                   \A i \in K : f[i] \in Binomial(tot[i] - fem[i], p)}}

\* t - SD.demography.birthDate
Ages(t) == [i \in Hosts |-> t * Unit - birthDate[i]]

\* the hosts a coverage draw selects: np.random.uniform(size=N) < coverage
Attendances(cov) ==
    {a \in SUBSET Hosts : \A i \in Hosts : (i \in a) \in Outcomes(LAMBDA u : Lt(u, cov[i]))}

\* lines 322-349 for one attendance draw
doChemoStep(t, attendance) ==
    LET toTreatNow == {i \in attendance : compliers[i]}
    IN  /\ Len(ageAtChemo) < MaxLog
        /\ clock' = t
        /\ IF BadN(wormsTotal, wormsFemale, toTreatNow)
           THEN /\ last' = [op |-> "doChemo", raised |-> "ValueError"]
                /\ UNCHANGED <<worms, logs>>
           ELSE \E r \in Kills(wormsTotal, wormsFemale, toTreatNow, DrugEfficacy) :
                /\ wormsTotal' = r.tot
                /\ wormsFemale' = r.fem
                /\ attendanceRecord' = Append(attendanceRecord,
                                              [mask |-> [i \in Hosts |-> i \in toTreatNow]])
                /\ ageAtChemo' = Append(ageAtChemo, Ages(t))
                /\ adherenceFactorAtChemo' =
                       Append(adherenceFactorAtChemo, [ref |-> "SD.adherenceFactors"])
                /\ last' = [op |-> "doChemo", raised |-> "none"]
        /\ UNCHANGED <<sv, demography, ageGroups, freeLiving, counters, zeroWormDeath>>

doChemo ==
    /\ Len(ageAtChemo) < MaxLog
    /\ \E t \in clock .. MaxT,
       coverage \in [0 .. Len(treatmentAgeGroupBreaks) - 2 -> CovValues] :
       \E attendance \in
              Attendances([i \in Hosts |-> coverage[treatmentAgeGroupIndices[i]]]) :
           doChemoStep(t, attendance)

\* lines 347, 454: SD.adherenceFactorAtChemo.append(SD.adherenceFactors) stores
\* the array object itself, so an entry reads as whatever that array holds now
Deref(entry) ==
    IF entry.ref = "SD.adherenceFactors" THEN adherenceFactors ELSE <<>>

\* the content of the k-th entry of SD.adherenceFactorAtChemo
LoggedAdherence(k) == Deref(adherenceFactorAtChemo[k])

\* --------------------------------------------------------- doChemoAgeRange
correctAgesNoMin(t, minAge, maxAge) ==
    {i \in Hosts : Ages(t)[i] <= maxAge * Unit}

\* lines 388, 529: np.logical_and(ages <= maxAge, ages >= minAge)
correctAges(t, minAge, maxAge) ==
    {i \in Hosts : Ages(t)[i] <= maxAge * Unit /\ Ages(t)[i] >= minAge * Unit}

\* lines 394-407: the share of a drug at time t, 0 outside its years
ShareAt(years, split, t) ==
    IF \E j \in 1 .. Len(years) : years[j] = t
    THEN split[CHOOSE j \in 1 .. Len(years) :
                   years[j] = t /\ \A l \in 1 .. Len(years) : years[l] = t => j <= l]
    ELSE <<0, 1>>

\* lines 410-413: the positions of the drug array set to 2, out of m positions
Drug2Picks(m, d2Share) ==
    IF d2Share[1] > 0
    THEN {k \in SUBSET (0 .. m - 1) : Cardinality(k) = (m * d2Share[1]) \div d2Share[2]}
    ELSE {{}}

\* lines 383-456 for one attendance draw
doChemoAgeRangeStep(t, minAge, maxAge, attendance) ==
    LET toTreatNow == {i \in attendance : compliers[i]} \cap correctAges(t, minAge, maxAge)
        m == Cardinality(toTreatNow)
        d1Share == ShareAt(drug1Years, drug1Split, t)
        d2Share == ShareAt(drug2Years, drug2Split, t)
    IN  \E pick \in Drug2Picks(m, d2Share) :
        LET \* np.where(drug == 1)[0], np.where(drug == 2)[0]: positions in the
            \* drug array, which the code then uses to index the host arrays
            k1 == IF d1Share[1] > 0 THEN (0 .. m - 1) \ pick ELSE {}
            k2 == IF d2Share[1] > 0 THEN pick ELSE {}
            rec1 == IF d1Share[1] > 0 THEN <<[idx |-> k1]>> ELSE <<>>
            rec2 == IF d2Share[1] > 0 THEN <<[idx |-> k2]>> ELSE <<>>
        IN  /\ Len(ageAtChemo) < MaxLog
            /\ clock' = t
            /\ IF BadN(wormsTotal, wormsFemale, k1)
               THEN /\ last' = [op |-> "doChemoAgeRange", raised |-> "ValueError"]
                    /\ UNCHANGED <<worms, logs, nChemo1, nChemo2>>
               ELSE \E r1 \in Kills(wormsTotal, wormsFemale, k1, DrugEfficacy1) :
                    IF BadN(r1.tot, r1.fem, k2)
                    THEN /\ wormsTotal' = r1.tot
                         /\ wormsFemale' = r1.fem
                         /\ attendanceRecord' = attendanceRecord \o rec1
                         /\ nChemo1' = nChemo1 + Cardinality(k1)
                         /\ last' = [op |-> "doChemoAgeRange", raised |-> "ValueError"]
                         /\ UNCHANGED <<ageAtChemo, adherenceFactorAtChemo, nChemo2>>
                    ELSE \E r2 \in Kills(r1.tot, r1.fem, k2, DrugEfficacy2) :
                         /\ wormsTotal' = r2.tot
                         /\ wormsFemale' = r2.fem
                         /\ attendanceRecord' = (attendanceRecord \o rec1) \o rec2
                         /\ nChemo1' = nChemo1 + Cardinality(k1)
                         /\ nChemo2' = nChemo2 + Cardinality(k2)
                         /\ ageAtChemo' = Append(ageAtChemo, Ages(t))
                         /\ adherenceFactorAtChemo' =
                                Append(adherenceFactorAtChemo,
                                       [ref |-> "SD.adherenceFactors"])
                         /\ last' = [op |-> "doChemoAgeRange", raised |-> "none"]
            /\ UNCHANGED <<sv, demography, ageGroups, freeLiving, vaccCount, numSurvey,
                           numSurveyTwo, zeroWormDeath>>

doChemoAgeRange ==
    /\ Len(ageAtChemo) < MaxLog
    /\ \E t \in clock .. MaxT, minAge \in AgeValues, maxAge \in AgeValues,
          coverage \in CovValues :
       \E attendance \in Attendances([i \in Hosts |-> coverage]) :
           doChemoAgeRangeStep(t, minAge, maxAge, attendance)

\* ------------------------------------------------------- doVaccineAgeRange
\* lines 527-536 for one coverage draw
doVaccineAgeRangeStep(t, minAge, maxAge, vaccinate) ==
    LET vaccNow == {i \in vaccinate : compliers[i]} \cap correctAges(t, minAge, maxAge)
    IN  /\ sv' = [i \in Hosts |-> IF i \in vaccNow THEN 1 ELSE sv[i]]
        /\ vaccCount' = vaccCount + Cardinality(vaccNow)
        /\ vaccCount' <= MaxCount
        /\ clock' = t
        /\ last' = [op |-> "doVaccineAgeRange", raised |-> "none"]
        /\ UNCHANGED <<worms, demography, ageGroups, freeLiving, numSurvey, numSurveyTwo,
                       nChemo1, nChemo2, logs, zeroWormDeath>>

doVaccineAgeRange ==
    \E t \in clock .. MaxT, minAge \in AgeValues, maxAge \in AgeValues,
       coverage \in CovValues :
    \E vaccinate \in Attendances([i \in Hosts |-> coverage]) :
        doVaccineAgeRangeStep(t, minAge, maxAge, vaccinate)

\* ---------------------------------------------------------- conductSurvey
minSurveyAge == 1
maxSurveyAge == 2

\* getSetOfEggCounts: the values one simulated egg-count reading of a host can
\* take
EggCounts(tot, fem) == 0 .. MaxEgg

\* k readings of every host
Readings(k) ==
    {r \in [1 .. k -> [Hosts -> 0 .. MaxEgg]] :
        \A j \in 1 .. k, i \in Hosts : r[j][i] \in EggCounts(wormsTotal[i], wormsFemale[i])}

RECURSIVE SumReadings(_, _, _)
\* np.add over the first k readings of host i
SumReadings(r, i, k) == IF k = 0 THEN 0 ELSE r[k][i] + SumReadings(r, i, k - 1)

\* (eggCounts / nSamples) > 0.9 with numpy's division: x/0 is inf or nan
Positive(sum, nSamples) == 10 * sum > 9 * nSamples

InvalidSamplesNegative(nSamples) == nSamples < 0

\* lines 548, 590
InvalidSamples(nSamples) == nSamples < 1

Min(a, b) == IF a < b THEN a ELSE b
Max(a, b) == IF a < b THEN b ELSE a

\* lines 551-563: one reading, then nSamples - 1 more
SurveyReadings(nSamples) == 1 + Max(nSamples - 1, 0)

\* lines 592-604: one reading, then nSamples more
SurveyTwoReadings(nSamples) == 1 + Max(nSamples, 0)

\* lines 543-582 for the readings r
conductSurveyStep(t, sampleSize, nSamples, r) ==
    /\ clock' = t
    /\ IF InvalidSamples(nSamples)
       THEN /\ last' = [op |-> "conductSurvey", raised |-> "ValueError"]
            /\ UNCHANGED numSurvey
       ELSE LET surveyAged == correctAges(t, minSurveyAge, maxSurveyAge)
                KKSampleSize == Min(sampleSize, Cardinality(surveyAged))
            IN  \E sampled \in {x \in SUBSET surveyAged : Cardinality(x) = KKSampleSize} :
                /\ numSurvey' = numSurvey + 1
                /\ numSurvey' <= MaxCount
                /\ last' = [op |-> "conductSurvey", raised |-> "none",
                            prevalence |->
                                <<Cardinality({i \in sampled :
                                      Positive(SumReadings(r, i, Len(r)), nSamples)}),
                                  KKSampleSize>>]
    /\ UNCHANGED <<worms, sv, demography, ageGroups, freeLiving, vaccCount, numSurveyTwo,
                   nChemo1, nChemo2, logs, zeroWormDeath>>

conductSurvey ==
    \E t \in clock .. MaxT, sampleSize \in 1 .. N + 1, nSamples \in MinSamples .. MaxSamples :
    \E r \in Readings(SurveyReadings(nSamples)) :
        conductSurveyStep(t, sampleSize, nSamples, r)

\* ------------------------------------------------------- conductSurveyTwo
\* lines 589-613 for the readings r
conductSurveyTwoStep(t, sampleSize, nSamples, r) ==
    /\ clock' = t
    /\ IF InvalidSamples(nSamples)
       THEN /\ last' = [op |-> "conductSurveyTwo", raised |-> "ValueError"]
            /\ UNCHANGED numSurveyTwo
       ELSE LET KKSampleSize == Min(sampleSize, N)
            IN  \E sampled \in {x \in SUBSET Hosts : Cardinality(x) = KKSampleSize} :
                /\ numSurveyTwo' = numSurveyTwo + 1
                /\ numSurveyTwo' <= MaxCount
                /\ last' = [op |-> "conductSurveyTwo", raised |-> "none",
                            prevalence |->
                                <<Cardinality({i \in sampled :
                                      Positive(SumReadings(r, i, Len(r)), nSamples)}),
                                  KKSampleSize>>]
    /\ UNCHANGED <<worms, sv, demography, ageGroups, freeLiving, vaccCount, numSurvey,
                   nChemo1, nChemo2, logs, zeroWormDeath>>

conductSurveyTwo ==
    \E t \in clock .. MaxT, sampleSize \in 1 .. N + 1, nSamples \in MinSamples .. MaxSamples :
    \E r \in Readings(SurveyTwoReadings(nSamples)) :
        conductSurveyTwoStep(t, sampleSize, nSamples, r)

\* ------------------------------------------------------------------- Init
\* the population after the (external) equilibrium initialisation: every valid
\* worm burden, and fixed birth and death dates
InitDemography ==
    /\ si = [i \in Hosts |-> 1]
    /\ birthDate = [i \in Hosts |-> 0 - (i * Unit)]
    /\ deathDate = [i \in Hosts |-> (i + 1) * 500]
    /\ adherenceFactors = [i \in Hosts |-> 0]
    /\ contactAgeGroupIndices =
           [i \in Hosts |-> Digitize(0 - birthDate[i], contactAgeGroupBreaks) - 1]
    /\ treatmentAgeGroupIndices =
           [i \in Hosts |-> Digitize(0 - birthDate[i], treatmentAgeGroupBreaks) - 1]
    /\ VaccTreatmentAgeGroupIndices =
           [i \in Hosts |-> Digitize(0 - birthDate[i], VaccTreatmentAgeGroupBreaks) - 1]

InitRest ==
    /\ InitDemography
    /\ freeLiving = 0
    /\ vaccCount = 0 /\ numSurvey = 0 /\ numSurveyTwo = 0 /\ nChemo1 = 0 /\ nChemo2 = 0
    /\ attendanceRecord = <<>> /\ ageAtChemo = <<>> /\ adherenceFactorAtChemo = <<>>
    /\ clock = 0
    /\ zeroWormDeath = FALSE
    /\ last = [op |-> "init", raised |-> "none"]

InitWorms ==
    /\ wormsTotal \in [Hosts -> 0 .. MaxWorms]
    /\ wormsFemale \in [Hosts -> 0 .. MaxWorms]
    /\ \A i \in Hosts : wormsFemale[i] <= wormsTotal[i]

FixedWorms ==
    /\ wormsTotal = [i \in Hosts |-> MaxWorms]
    /\ wormsFemale = [i \in Hosts |-> 1]

FixedSv == sv = [i \in Hosts |-> i % 2]
FixedCompliers == compliers = [i \in Hosts |-> i % 2 = 1]

Init == InitWorms /\ FixedSv /\ FixedCompliers /\ InitRest
InitSampler == InitWorms /\ sv \in [Hosts -> {0, 1}] /\ FixedCompliers /\ InitRest
InitChemo == InitWorms /\ FixedSv /\ compliers \in [Hosts -> BOOLEAN] /\ InitRest
InitVaccine ==
    FixedWorms /\ sv \in [Hosts -> {0, 1}] /\ compliers \in [Hosts -> BOOLEAN] /\ InitRest
InitRegular == InitWorms /\ sv \in [Hosts -> {0, 1}] /\ FixedCompliers /\ InitRest
InitSurvey ==
    /\ wormsTotal = [i \in Hosts |-> MaxWorms]
    /\ wormsFemale \in [Hosts -> 0 .. 1]
    /\ FixedSv /\ FixedCompliers /\ InitRest

\* --------------------------------------------------------- specifications
\* the event sampler alone
NextSampler == doEvent \/ doEvent2
SpecSampler == InitSampler /\ [][NextSampler]_vars

\* every operation that changes worm counts; the run stops once a death event
\* has addressed a host without worms
Next == /\ ~zeroWormDeath
        /\ (doEvent \/ doEvent2 \/ doDeath \/ doChemo \/ doChemoAgeRange)
Spec == Init /\ [][Next]_vars

\* the interventions and the demographic update
NextChemo == doChemo \/ doChemoAgeRange \/ doDeath
SpecChemo == InitChemo /\ [][NextChemo]_vars

NextVaccine == doVaccineAgeRange \/ doDeath
SpecVaccine == InitVaccine /\ [][NextVaccine]_vars

\* the regular step and its parts
NextRegular == doRegular \/ doDeath \/ doFreeLive
SpecRegular == InitRegular /\ [][NextRegular]_vars

\* the surveys
NextSurvey == conductSurvey \/ conductSurveyTwo
SpecSurvey == InitSurvey /\ [][NextSurvey]_vars

\* ------------------------------------------------------------------ claims
\* C1: as long as no death event has addressed a host without worms, every
\* host has 0 <= wormsFemale <= wormsTotal after any sequence of doEvent,
\* doEvent2, doDeath, doChemo and doChemoAgeRange calls.
C1_FemaleWithinTotal ==
    ~zeroWormDeath =>
        \A i \in Hosts : 0 <= wormsFemale[i] /\ wormsFemale[i] <= wormsTotal[i]

\* a state after a chemotherapy round, a demographic update and a batch of
\* events, with a host that carries only female worms
C1_Witness ==
    /\ ~zeroWormDeath
    /\ last.op = "doEvent2"
    /\ Len(ageAtChemo) > 0
    /\ \E i \in Hosts : birthDate[i] = clock * Unit - 1
    /\ \E i \in Hosts : wormsTotal[i] > 0 /\ wormsFemale[i] = wormsTotal[i]

\* the effect one event class has on one host in 0..N-1, and nothing else
C2_Effect(event) ==
    /\ last'.raised = "none"
    /\ event \in 0 .. N - 1 =>
          /\ sv' = sv
          /\ \E dt \in {0, 1}, df \in {0, 1} :
                /\ df <= dt
                /\ wormsTotal' = [wormsTotal EXCEPT ![event] = @ + dt]
                /\ wormsFemale' = [wormsFemale EXCEPT ![event] = @ + df]
    /\ event \in N .. 2 * N - 1 =>
          /\ sv' = [sv EXCEPT ![event - N] = 0]
          /\ wormsTotal' = wormsTotal /\ wormsFemale' = wormsFemale
    /\ event = 2 * N =>
          /\ sv' = sv
          /\ \E h \in Hosts, df \in {0, 1} :
                /\ wormsTotal' = [wormsTotal EXCEPT ![h] = @ - 1]
                /\ wormsFemale' = [wormsFemale EXCEPT ![h] = @ - df]

\* C2: every doEvent call applies the effect of exactly one event class
\* (acquisition for an index in 0..N-1, vaccine-waning for N..2N-1, death for
\* 2N) to exactly one host in 0..N-1, and addresses no host outside 0..N-1.
C2_OneAtomicChange ==
    [][last'.op = "doEvent" =>
          \A d \in EventDraws : doEventStep(d.event) => C2_Effect(d.event)]_vars

\* the sum of the increments of the draws of a batch that addressed host h
RECURSIVE C3_NetIncrement(_, _, _, _)
C3_NetIncrement(h, events_array, incr, j) ==
    IF j > Len(events_array) THEN 0
    ELSE (IF HostIndex(events_array[j]) = h THEN incr[j] ELSE 0)
         + C3_NetIncrement(h, events_array, incr, j + 1)

\* C3: in doEvent2 the draws of one batch that address the same host add up:
\* that host's wormsTotal and wormsFemale change by the sum of the increments
\* of all draws that addressed it.
C3_BatchAdditive ==
    [][last'.op = "doEvent2" =>
          \A events_array \in BatchDraws :
          \A acc \in AcceptOutcomes(events_array),
             dies \in FemaleDeathOutcomes(events_array),
             half \in HalfOutcomes(events_array) :
              doEvent2Step(events_array, acc, dies, half) =>
                  \A h \in Hosts :
                      /\ wormsTotal'[h] = wormsTotal[h]
                            + C3_NetIncrement(h, events_array,
                                              TotalArray(events_array, acc), 1)
                      /\ wormsFemale'[h] = wormsFemale[h]
                            + C3_NetIncrement(h, events_array,
                                  FemalesArray(events_array, acc, dies, half), 1)]_vars

\* C4: doChemoAgeRange changes the worm counts only of hosts that were drawn
\* as attending, are compliers and have age in [minAge, maxAge] at time t.
C4_OnlyEligibleTreated ==
    [][last'.op = "doChemoAgeRange" =>
          \A t \in Times, minAge \in AgeValues, maxAge \in AgeValues,
             attendance \in SUBSET Hosts :
              doChemoAgeRangeStep(t, minAge, maxAge, attendance) =>
                  \A i \in Hosts :
                      ~(/\ i \in attendance
                        /\ compliers[i]
                        /\ minAge * Unit <= t * Unit - birthDate[i]
                        /\ t * Unit - birthDate[i] <= maxAge * Unit)
                      => /\ wormsTotal'[i] = wormsTotal[i]
                         /\ wormsFemale'[i] = wormsFemale[i]]_vars

\* C5: conductSurveyTwo scores each host by the mean of exactly nSamples
\* readings, so with sampleSize = N the prevalence is the fraction of hosts
\* whose mean over nSamples readings exceeds 0.9; with nSamples = 1 that is the
\* fraction of hosts whose single reading exceeds 0.9.
C5_SurveyTwoMean ==
    [][(last'.op = "conductSurveyTwo" /\ last'.raised = "none") =>
          \A t \in Times, nSamples \in 1 .. MaxSamples :
          \A r \in Readings(SurveyTwoReadings(nSamples)) :
              conductSurveyTwoStep(t, N, nSamples, r) =>
                  /\ last'.prevalence =
                        <<Cardinality({i \in Hosts :
                              10 * SumReadings(r, i, nSamples) > 9 * nSamples}), N>>
                  /\ nSamples = 1 =>
                        last'.prevalence =
                            <<Cardinality({i \in Hosts : 10 * r[1][i] > 9}), N>>]_vars

\* C6: conductSurvey and conductSurveyTwo called with nSamples < 1 raise the
\* invalid-argument error and change neither the population nor a counter.
C6_InvalidSamplesRaise ==
    [][\A t \in Times, sampleSize \in 1 .. N + 1, nSamples \in MinSamples .. MaxSamples :
          (/\ nSamples < 1
           /\ \E r \in Readings(1) :
                 \/ conductSurveyStep(t, sampleSize, nSamples, r)
                 \/ conductSurveyTwoStep(t, sampleSize, nSamples, r))
          => /\ last'.raised = "ValueError"
             /\ UNCHANGED <<worms, sv, demography, ageGroups, freeLiving, counters,
                            logs>>]_vars

\* a rejected survey call after a successful survey
C6_Witness ==
    /\ last.op \in {"conductSurvey", "conductSurveyTwo"}
    /\ last.raised = "ValueError"
    /\ numSurvey + numSurveyTwo > 0

\* C7: doDeath at time t resets every host whose deathDate < t (no worms,
\* unvaccinated, deathDate > t) and leaves every other host's worm counts,
\* vaccineStatus, birthDate, deathDate, susceptibility, adherenceFactor and
\* complier flag as they were.
C7_DeathResets ==
    [][last'.op = "doDeath" =>
          \A i \in Hosts :
              IF deathDate[i] < clock' * Unit
              THEN /\ wormsTotal'[i] = 0 /\ wormsFemale'[i] = 0
                   /\ sv'[i] = 0
                   /\ deathDate'[i] > clock' * Unit
              ELSE /\ wormsTotal'[i] = wormsTotal[i] /\ wormsFemale'[i] = wormsFemale[i]
                   /\ sv'[i] = sv[i]
                   /\ birthDate'[i] = birthDate[i] /\ deathDate'[i] = deathDate[i]
                   /\ si'[i] = si[i]
                   /\ adherenceFactors'[i] = adherenceFactors[i]
                   /\ compliers'[i] = compliers[i]]_vars

\* after a doDeath: one host reborn at the current time, and a vaccinated host
\* with worms whose deathDate is exactly the current time
C7_Witness ==
    /\ last.op = "doDeath"
    /\ \E i \in Hosts : birthDate[i] = clock * Unit - 1 /\ wormsTotal[i] = 0
    /\ \E i \in Hosts : deathDate[i] = clock * Unit /\ wormsTotal[i] > 0 /\ sv[i] = 1

\* C8: doVaccineAgeRange sets vaccineStatus = 1 exactly for the hosts that are
\* drawn, are compliers and have age in [minAge, maxAge], leaves every other
\* vaccineStatus as it was and adds the number of those hosts to vaccCount;
\* with coverage 0 nothing changes.
C8_VaccineAgeRange ==
    [][last'.op = "doVaccineAgeRange" =>
          \A t \in Times, minAge \in AgeValues, maxAge \in AgeValues,
             coverage \in CovValues :
          \A vaccinate \in Attendances([i \in Hosts |-> coverage]) :
              doVaccineAgeRangeStep(t, minAge, maxAge, vaccinate) =>
                  LET chosen == {i \in vaccinate :
                                    /\ compliers[i]
                                    /\ minAge * Unit <= t * Unit - birthDate[i]
                                    /\ t * Unit - birthDate[i] <= maxAge * Unit}
                  IN  /\ \A i \in Hosts : sv'[i] = IF i \in chosen THEN 1 ELSE sv[i]
                      /\ vaccCount' = vaccCount + Cardinality(chosen)
                      /\ coverage[1] = 0 => (sv' = sv /\ vaccCount' = vaccCount)]_vars

\* after a doVaccineAgeRange that vaccinated a host and left a complier
\* unvaccinated
C8_Witness ==
    /\ last.op = "doVaccineAgeRange"
    /\ vaccCount > 0
    /\ \E i \in Hosts : sv[i] = 1 /\ compliers[i]
    /\ \E i \in Hosts : sv[i] = 0 /\ compliers[i]

\* C9: doRegular updates the reservoir from the state doDeath leaves: a host
\* whose deathDate < t contributes no egg output, and the contact age groups
\* are the ones recomputed in this step.
C9_ReservoirAfterDeath ==
    [][last'.op = "doRegular" =>
          \A t \in Times, dt \in 0 .. MaxDt :
              doRegularStep(t, dt) =>
                  LET egg == [i \in Hosts |->
                                 IF deathDate[i] < t * Unit THEN 0
                                 ELSE eggOutputPerHost(wormsTotal[i], wormsFemale[i], sv[i])
                                      * rho[contactAgeGroupIndices'[i] + 1]]
                      rate == (2 * psi * SumOver(egg, Hosts)) \div N
                  IN  /\ \A i \in Hosts :
                            contactAgeGroupIndices'[i] =
                                Digitize(t * Unit - birthDate'[i], contactAgeGroupBreaks) - 1
                      /\ freeLiving' = (freeLiving \div Pow2(dt))
                            + (rate * (Pow2(dt) - 1) * 3) \div (Pow2(dt) * 2)]_vars

\* after a doRegular in which a host was reborn and the reservoir was fed
C9_Witness ==
    /\ last.op = "doRegular"
    /\ freeLiving > 0
    /\ \E i \in Hosts : birthDate[i] = clock * Unit - 1 /\ deathDate[i] > clock * Unit

\* C10: the audit logs are append-only: an entry of attendanceRecord,
\* ageAtChemo or adherenceFactorAtChemo, once appended, keeps its content.
C10_AppendOnly ==
    [][/\ \A k \in 1 .. Len(attendanceRecord) :
             k <= Len(attendanceRecord') /\ attendanceRecord'[k] = attendanceRecord[k]
       /\ \A k \in 1 .. Len(ageAtChemo) :
             k <= Len(ageAtChemo') /\ ageAtChemo'[k] = ageAtChemo[k]
       /\ \A k \in 1 .. Len(adherenceFactorAtChemo) :
             /\ k <= Len(adherenceFactorAtChemo')
             /\ LoggedAdherence(k)' = LoggedAdherence(k)]_vars

\* C11: doEvent never selects and applies an event whose rate entry is zero:
\* a call whose selected event has rate zero (all rates zero) changes no host's
\* worm counts or vaccineStatus, and the nested death draw of a death event
\* never picks a host whose weight wormsTotal[i] * v1[sv[i]] is zero.
C11_NoZeroRateEvent ==
    [][last'.op = "doEvent" =>
          \A d \in EventDraws :
              doEventStep(d.event) =>
                  /\ d.rate = 0 =>
                        (wormsTotal' = wormsTotal /\ wormsFemale' = wormsFemale /\ sv' = sv)
                  /\ d.event = 2 * N =>
                        \A deathIndex \in DeathIndexes :
                            wormsTotal[deathIndex] * v1[sv[deathIndex]] > 0]_vars
====
